---------------------------- MODULE Spec2Model ----------------------------
(*
  ImageToText: OCR recognition selection (ocr_engine.py), the multi-stage
  text correction pipeline (error_checker.py) and the orchestrator
  (main.py), as one state machine.

  A text is a sequence of Unicode code points (Python's ord of each
  character): 1074 is CYRILLIC SMALL LETTER VE, 45 is '-', 10 is the line
  feed, 32 is the space.  The texts of the model are drawn from ASCII and
  the basic Cyrillic letters (code points below 128 or in 1024..1119); the
  character classes below are those of Python on that range.
*)
EXTENDS Integers, Sequences, FiniteSets, TLC

(***************************************************************************)
(* Character classes                                                       *)
(***************************************************************************)

\* the regex class [a-ya yo A-YA YO] of _fix_word_hyphenation and
\* _check_spelling: U+0430..U+044F, U+0451, U+0410..U+042F, U+0401
IsCyrillic(c) ==
    \/ c \in 1072..1103
    \/ c = 1105
    \/ c \in 1040..1071
    \/ c = 1025

\* str.isalpha() on ASCII and the Cyrillic block (U+0482..U+0489 are a
\* symbol and combining marks, not letters)
IsAlpha(c) ==
    \/ c \in 65..90
    \/ c \in 97..122
    \/ c \in 1024..1153
    \/ c \in 1162..1279

\* the regex class \w for str patterns: letters, decimal digits, underscore
IsWordChar(c) ==
    \/ IsAlpha(c)
    \/ c \in 48..57
    \/ c = 95

\* str.lower() of one character (ASCII, U+0400..U+042F)
LowerChar(c) ==
    IF c \in 65..90 THEN c + 32
    ELSE IF c \in 1040..1071 THEN c + 32
    ELSE IF c \in 1024..1039 THEN c + 80
    ELSE c

\* str.lower()
Lower(s) == [i \in 1..Len(s) |-> LowerChar(s[i])]

\* str.isspace() of one character: the ASCII whitespace block
IsSpace(c) == c \in 9..13 \/ c \in 28..32

(***************************************************************************)
(* String primitives                                                       *)
(***************************************************************************)

\* p occurs in s at (1-based) position i
MatchesAt(s, i, p) ==
    /\ i >= 1
    /\ i + Len(p) - 1 <= Len(s)
    /\ \A k \in 1..Len(p) : s[i + k - 1] = p[k]

\* str.find from position i: the first position >= i where p occurs, or 0
RECURSIVE Find(_, _, _)
Find(s, p, i) ==
    IF i + Len(p) - 1 > Len(s) THEN 0
    ELSE IF MatchesAt(s, i, p) THEN i
    ELSE Find(s, p, i + 1)

\* the operator `in` on strings
Contains(s, p) == Find(s, p, 1) # 0

\* str.replace(old, new, count): non-overlapping occurrences, left to right;
\* count = -1 replaces them all
RECURSIVE str_replace(_, _, _, _)
str_replace(s, old, new, count) ==
    IF count = 0 THEN s
    ELSE IF old = <<>> THEN
        IF s = <<>> THEN new
        ELSE new \o <<Head(s)>> \o str_replace(Tail(s), old, new, count - 1)
    ELSE LET i == Find(s, old, 1) IN
        IF i = 0 THEN s
        ELSE SubSeq(s, 1, i - 1) \o new
             \o str_replace(SubSeq(s, i + Len(old), Len(s)), old, new, count - 1)

\* str.strip(): leading and trailing whitespace removed
RECURSIVE LStrip(_)
LStrip(s) == IF s # <<>> /\ IsSpace(Head(s)) THEN LStrip(Tail(s)) ELSE s

RECURSIVE RStrip(_)
RStrip(s) ==
    IF s # <<>> /\ IsSpace(s[Len(s)]) THEN RStrip(SubSeq(s, 1, Len(s) - 1)) ELSE s

Strip(s) == RStrip(LStrip(s))

\* len(s.split()): the number of whitespace-delimited tokens
WordCount(s) ==
    Cardinality({i \in 1..Len(s) :
        /\ ~IsSpace(s[i])
        /\ (i = 1 \/ IsSpace(s[i - 1]))})

\* concatenation of a sequence of texts
RECURSIVE Concat(_)
Concat(ss) == IF ss = <<>> THEN <<>> ELSE Head(ss) \o Concat(Tail(ss))


(***************************************************************************)
(* ErrorChecker: the tables                                                *)
(***************************************************************************)

\* self.context_errors, in the dict's (insertion) order:
\*   "v nes" -> "v nee", "na nes" -> "na nee", "k nei" -> "k ne(short i)",
\*   "iz nes" -> "iz nee", "dlya nes" -> "dlya nee", "ve" -> "e(yo)",
\*   "knam" -> "k nam"
context_errors ==
    << [wrong |-> <<1074, 32, 1085, 1077, 1089>>,
        correct |-> <<1074, 32, 1085, 1077, 1077>>],
       [wrong |-> <<1085, 1072, 32, 1085, 1077, 1089>>,
        correct |-> <<1085, 1072, 32, 1085, 1077, 1077>>],
       [wrong |-> <<1082, 32, 1085, 1077, 1080>>,
        correct |-> <<1082, 32, 1085, 1077, 1081>>],
       [wrong |-> <<1080, 1079, 32, 1085, 1077, 1089>>,
        correct |-> <<1080, 1079, 32, 1085, 1077, 1077>>],
       [wrong |-> <<1076, 1083, 1103, 32, 1085, 1077, 1089>>,
        correct |-> <<1076, 1083, 1103, 32, 1085, 1077, 1077>>],
       [wrong |-> <<1074, 1077>>,
        correct |-> <<1077, 1105>>],
       [wrong |-> <<1082, 1085, 1072, 1084>>,
        correct |-> <<1082, 32, 1085, 1072, 1084>>] >>

\* the replacements dict of _check_ocr_errors, in order:
\*   '0' -> U+041E, '1' -> U+0406, '3' -> U+0417, 'l' -> U+0456
replacements ==
    << [bad |-> 48, good |-> 1054],
       [bad |-> 49, good |-> 1030],
       [bad |-> 51, good |-> 1047],
       [bad |-> 108, good |-> 1110] >>

\* the confidence every grammar issue is created with (0.8), in hundredths
GrammarConfidence == 80

\* the confidence a grammar replacement must exceed (0.8), in hundredths
ConfidenceThreshold == 80

\* the categories of LanguageTool matches that _check_grammar keeps
KeptCategories == {"TYPOS", "GRAMMAR"}

(***************************************************************************)
(* ErrorChecker._fix_word_hyphenation                                      *)
(***************************************************************************)

\* re.finditer of  ([cyr])-\n([cyr]) : the start positions of the
\* non-overlapping matches, scanning from position i
RECURSIVE HyphenMatches(_, _)
HyphenMatches(text, i) ==
    IF i + 3 > Len(text) THEN <<>>
    ELSE IF /\ IsCyrillic(text[i])
            /\ text[i + 1] = 45
            /\ text[i + 2] = 10
            /\ IsCyrillic(text[i + 3])
         THEN <<i>> \o HyphenMatches(text, i + 4)
         ELSE HyphenMatches(text, i + 1)

\* the loop  while word_start > 0 and text[word_start - 1].isalpha()
RECURSIVE WordStart(_, _)
WordStart(text, ws) ==
    IF ws > 1 /\ IsAlpha(text[ws - 1]) THEN WordStart(text, ws - 1) ELSE ws

\* the loop  while word_end < len(text) and text[word_end].isalpha()
\* (we is the position of the word's last character)
RECURSIVE WordEnd(_, _)
WordEnd(text, we) ==
    IF we < Len(text) /\ IsAlpha(text[we + 1]) THEN WordEnd(text, we + 1) ELSE we

\* the issue built for the match that starts at position m
HyphenError(text, m) ==
    LET ws == WordStart(text, m)
        we == WordEnd(text, m + 3)
    IN [type |-> "hyphenation_error",
        original |-> SubSeq(text, ws, we),
        suggestion |-> SubSeq(text, ws, m - 1) \o <<text[m], text[m + 3]>>
                       \o SubSeq(text, m + 4, we),
        text |-> SubSeq(text, m, m + 3)]

_fix_word_hyphenation(text) ==
    LET ms == HyphenMatches(text, 1)
    IN [k \in 1..Len(ms) |-> HyphenError(text, ms[k])]

(***************************************************************************)
(* ErrorChecker._check_ocr_errors                                          *)
(***************************************************************************)

\* the end of the run of word characters that starts at position i
RECURSIVE RunEnd(_, _)
RunEnd(text, i) ==
    IF i < Len(text) /\ IsWordChar(text[i + 1]) THEN RunEnd(text, i + 1) ELSE i

\* re.findall(r'\b\w+\b', text): the maximal runs of word characters, one
\* entry per occurrence, in text order
RECURSIVE Tokens(_, _)
Tokens(text, i) ==
    IF i > Len(text) THEN <<>>
    ELSE IF IsWordChar(text[i])
         THEN LET e == RunEnd(text, i)
              IN <<SubSeq(text, i, e)>> \o Tokens(text, e + 1)
         ELSE Tokens(text, i + 1)

\* the inner loop over replacements.items(), from entry k on
RECURSIVE CorrectWord(_, _, _)
CorrectWord(word, corrected, k) ==
    IF k > Len(replacements) THEN corrected
    ELSE CorrectWord(word,
                     IF Contains(word, <<replacements[k].bad>>)
                     THEN str_replace(corrected, <<replacements[k].bad>>,
                                      <<replacements[k].good>>, -1)
                     ELSE corrected,
                     k + 1)

OcrError(word) ==
    [type |-> "ocr_error",
     original |-> word,
     suggestion |-> CorrectWord(word, word, 1),
     text |-> word]

\* the loop over words: one issue per word whose corrected form differs
RECURSIVE OcrErrorsOf(_)
OcrErrorsOf(words) ==
    IF words = <<>> THEN <<>>
    ELSE (IF CorrectWord(Head(words), Head(words), 1) # Head(words)
          THEN <<OcrError(Head(words))>> ELSE <<>>)
         \o OcrErrorsOf(Tail(words))

\* a sequence without its repeated entries (the first of each is kept)
RECURSIVE Distinct(_)
Distinct(ws) ==
    IF ws = <<>> THEN <<>>
    ELSE LET rest == Distinct(SubSeq(ws, 1, Len(ws) - 1))
         IN IF \E k \in 1..(Len(ws) - 1) : ws[k] = ws[Len(ws)]
            THEN rest ELSE Append(rest, ws[Len(ws)])

\* _check_ocr_errors over the distinct words only
_check_ocr_errors_distinct(text) == OcrErrorsOf(Distinct(Tokens(text, 1)))

_check_ocr_errors(text) == OcrErrorsOf(Tokens(text, 1))

(***************************************************************************)
(* ErrorChecker._check_context_errors                                      *)
(***************************************************************************)

\* pattern.finditer(text) with re.IGNORECASE: the start positions of the
\* non-overlapping matches of the phrase, scanning from position i
RECURSIVE PhraseMatches(_, _, _)
PhraseMatches(text, phrase, i) ==
    IF i + Len(phrase) - 1 > Len(text) THEN <<>>
    ELSE IF MatchesAt(Lower(text), i, Lower(phrase))
         THEN <<i>> \o PhraseMatches(text, phrase, i + Len(phrase))
         ELSE PhraseMatches(text, phrase, i + 1)

\* the issues of one entry of context_errors
ContextErrorsOfPhrase(text, entry) ==
    IF Contains(Lower(text), Lower(entry.wrong))
    THEN LET ms == PhraseMatches(text, entry.wrong, 1)
         IN [k \in 1..Len(ms) |->
                [type |-> "context_error",
                 original |-> SubSeq(text, ms[k], ms[k] + Len(entry.wrong) - 1),
                 suggestion |-> entry.correct,
                 text |-> SubSeq(text, ms[k], ms[k] + Len(entry.wrong) - 1)]]
    ELSE <<>>

\* the loop over self.context_errors.items(), from entry k on
RECURSIVE ContextErrorsFrom(_, _)
ContextErrorsFrom(text, k) ==
    IF k > Len(context_errors) THEN <<>>
    ELSE ContextErrorsOfPhrase(text, context_errors[k])
         \o ContextErrorsFrom(text, k + 1)

_check_context_errors(text) == ContextErrorsFrom(text, 1)

(***************************************************************************)
(* ErrorChecker._check_grammar and _check_spelling                         *)
(***************************************************************************)

\* text[match.offset : match.offset + match.length] (0-based offset,
\* Python slicing clamps at the end of the text)
Slice(text, offset, length) ==
    SubSeq(text, offset + 1,
           IF offset + length > Len(text) THEN Len(text) ELSE offset + length)

\* the loop over the matches LanguageTool returned
RECURSIVE GrammarErrorsOf(_, _)
GrammarErrorsOf(text, matches) ==
    IF matches = <<>> THEN <<>>
    ELSE LET m == Head(matches)
         IN (IF m.category \in KeptCategories /\ m.replacements # <<>>
             THEN << [type |-> "grammar_error",
                      original |-> Slice(text, m.offset, m.length),
                      suggestion |-> m.replacements[1],
                      text |-> Slice(text, m.offset, m.length),
                      confidence |-> GrammarConfidence] >>
             ELSE <<>>)
            \o GrammarErrorsOf(text, Tail(matches))

\* _check_grammar: answer is what self.lt.check(text) did, either
\* [raised |-> TRUE] or [raised |-> FALSE, matches |-> <<...>>]
_check_grammar(text, has_lt, answer) ==
    IF ~has_lt THEN <<>>
    ELSE IF answer.raised THEN <<>>
    ELSE GrammarErrorsOf(text, answer.matches)

\* re.findall(r'\b[cyr]+\b', text): the tokens made of Cyrillic letters only
CyrillicWords(text) ==
    SelectSeq(Tokens(text, 1), LAMBDA w : \A k \in 1..Len(w) : IsCyrillic(w[k]))

\* the loop over the misspelled words: unknown is the sequence of
\* [word, candidates] the spell checker answered, in iteration order
RECURSIVE SpellingErrorsOf(_)
SpellingErrorsOf(unknown) ==
    IF unknown = <<>> THEN <<>>
    ELSE LET u == Head(unknown)
         IN (IF u.candidates # <<>>
             THEN << [type |-> "spelling_error",
                      original |-> u.word,
                      suggestion |-> u.candidates[1],
                      text |-> u.word,
                      candidates |-> SubSeq(u.candidates, 1,
                          IF Len(u.candidates) < 3 THEN Len(u.candidates) ELSE 3)] >>
             ELSE <<>>)
            \o SpellingErrorsOf(Tail(unknown))

\* _check_spelling: answer is what self.spell did, either [raised |-> TRUE]
\* or [raised |-> FALSE, unknown |-> <<...>>]
_check_spelling(text, has_sp, answer) ==
    IF ~has_sp THEN <<>>
    ELSE IF answer.raised THEN <<>>
    ELSE SpellingErrorsOf(answer.unknown)

(***************************************************************************)
(* ErrorChecker._count_error_types and the replacement loops               *)
(***************************************************************************)

\* CountOne without the increment: counts[error_type] = 1
CountOneNoIncrement(counts, t) ==
    [x \in DOMAIN counts \cup {t} |-> IF x = t THEN 1 ELSE counts[x]]

\* counts[error_type] = counts.get(error_type, 0) + 1
CountOne(counts, t) ==
    IF t \in DOMAIN counts
    THEN [counts EXCEPT ![t] = @ + 1]
    ELSE [x \in DOMAIN counts \cup {t} |-> IF x = t THEN 1 ELSE counts[x]]

RECURSIVE CountFrom(_, _)
CountFrom(counts, errs) ==
    IF errs = <<>> THEN counts
    ELSE CountFrom(CountOne(counts, Head(errs).type), Tail(errs))

_count_error_types(errs) == CountFrom(<<>>, errs)

\* error.get('confidence', 0)
Confidence(error) ==
    IF "confidence" \in DOMAIN error THEN error.confidence ELSE 0

\* for error in errs: text = text.replace(original, suggestion[, count])
RECURSIVE ApplyErrors(_, _, _)
ApplyErrors(text, errs, count) ==
    IF errs = <<>> THEN text
    ELSE ApplyErrors(str_replace(text, Head(errs).original,
                                 Head(errs).suggestion, count),
                     Tail(errs), count)

\* the grammar loop with >= in the place of > : a replacement where the
\* confidence reaches 0.8
RECURSIVE ApplyGrammarErrorsAtLeast(_, _)
ApplyGrammarErrorsAtLeast(text, errs) ==
    IF errs = <<>> THEN text
    ELSE ApplyGrammarErrorsAtLeast(
             IF Confidence(Head(errs)) >= ConfidenceThreshold
             THEN str_replace(text, Head(errs).original, Head(errs).suggestion, 1)
             ELSE text,
             Tail(errs))

\* the grammar loop: a replacement only where the confidence exceeds 0.8
RECURSIVE ApplyGrammarErrors(_, _)
ApplyGrammarErrors(text, errs) ==
    IF errs = <<>> THEN text
    ELSE ApplyGrammarErrors(
             IF Confidence(Head(errs)) > ConfidenceThreshold
             THEN str_replace(text, Head(errs).original, Head(errs).suggestion, 1)
             ELSE text,
             Tail(errs))


(***************************************************************************)
(* OCREngine                                                               *)
(***************************************************************************)

\* the number of versions _preprocess_image builds from a decoded image:
\* gray, CLAHE, Otsu, adaptive, morphology, denoised, sharpened
NumVersions == 7

\* _preprocess_image: how many versions come back, or the exception it
\* leaves with; cv2.imread returns None for a file it cannot decode, and the
\* method then returns []; an OpenCV call on the decoded image may raise
_preprocess_image(img) ==
    IF img = "decodable" THEN [raised |-> FALSE, images |-> NumVersions]
    ELSE IF img = "unprocessable" THEN [raised |-> TRUE]
    ELSE [raised |-> FALSE, images |-> 0]

\* the loop body of recognize_text: keep the longer text
KeepBest(best, t) == IF Len(t) > Len(best) THEN t ELSE best

\* the result recognize_text returns for a path that does not exist (the
\* error is the fixed message of line 19)
NotFoundResult == [success |-> FALSE, error |-> "not found"]

\* the result of the except branch of recognize_text (the error is str(e))
ExceptionResult == [success |-> FALSE, error |-> "exception"]

\* the result recognize_text returns after the loop
RecognizeResult(best) ==
    [success |-> TRUE,
     full_text |-> Strip(best),
     statistics |-> [characters |-> Len(Strip(best)),
                     words |-> WordCount(Strip(best))]]

(***************************************************************************)
(* Bounds and inputs                                                       *)
(***************************************************************************)

\* texts handed to check_text are built of at most MaxFrags fragments
MaxFrags == 2

\* the grammar capability returns at most MaxMatches matches per call
MaxMatches == 1

\* the grammar capability flags spans that start at offset 0..MaxOffset
MaxOffset == 0

\* the spelling capability reports at most MaxUnknown unknown words per call
MaxUnknown == 1

\* the fragments: "v", "v-\n", "v-\nv", "3", " 3", "k nei", "z nes", "VE"
Fragments ==
    { <<1074>>, <<1074, 45, 10>>, <<1074, 45, 10, 1074>>, <<51>>, <<32, 51>>,
      <<1082, 32, 1085, 1077, 1080>>, <<1079, 32, 1085, 1077, 1089>>,
      <<1042, 1045>> }

TextInputs ==
    { Concat(fs) : fs \in UNION { [1..n -> Fragments] : n \in 0..MaxFrags } }

\* what Tesseract may answer for one version: "" (also its except branch),
\* "3v", "v\n\n"
OcrTexts == { <<>>, <<51, 1074>>, <<1074, 10, 10>> }

\* the states of image_path and of the file behind it:
\*   "bad_path"      Path(image_path) or exists() raises (None, a file name
\*                   that is too long)
\*   "missing"       no file at the path
\*   "undecodable"   a file cv2.imread cannot decode
\*   "unprocessable" a decoded image on which an OpenCV call raises
\*   "decodable"     a decoded image of which the seven versions are built
ImageStates ==
    {"bad_path", "missing", "undecodable", "unprocessable", "decodable"}

\* sequences over S of length at most n
SeqUpTo(S, n) == UNION { [1..k -> S] : k \in 0..n }

\* the matches LanguageTool may return for a text: any category, a
\* one-character span, with or without a replacement ("e")
GrammarMatches(t) ==
    { [category |-> c, offset |-> o, length |-> 1, replacements |-> r] :
        c \in {"TYPOS", "GRAMMAR", "STYLE"},
        o \in 0..(IF Len(t) - 1 < MaxOffset THEN Len(t) - 1 ELSE MaxOffset),
        r \in { <<>>, << <<1077>> >> } }

GrammarAnswers(t) ==
    {[raised |-> TRUE]} \cup
    { [raised |-> FALSE, matches |-> ms] : ms \in SeqUpTo(GrammarMatches(t), MaxMatches) }

\* the candidate lists the spell checker may give for a word: none, or
\* four ("ee", "e", "v", "vv")
CandidateLists ==
    { <<>>, << <<1077, 1077>>, <<1077>>, <<1074>>, <<1074, 1074>> >> }

\* the forms in which self.spell.unknown may report a word it was given:
\* as it stands in the text, or lower-cased (what the spell checker does
\* when it is not case sensitive)
ReportedForms(w) == {w, Lower(w)}

\* the unknown words the spell checker may report for a text, each with its
\* candidates, in the order the set of them is iterated
SpellingUnknown(t) ==
    { u \in SeqUpTo({ [word |-> w, candidates |-> c] :
                        w \in UNION { ReportedForms(CyrillicWords(t)[k]) :
                                        k \in 1..Len(CyrillicWords(t)) },
                        c \in CandidateLists }, MaxUnknown) :
        \A i, j \in 1..Len(u) : i # j => u[i].word # u[j].word }

SpellingAnswers(t) ==
    {[raised |-> TRUE]} \cup
    { [raised |-> FALSE, unknown |-> u] : u \in SpellingUnknown(t) }

(***************************************************************************)
(* State                                                                   *)
(***************************************************************************)

VARIABLES
    has_spellchecker,   \* ErrorChecker.has_spellchecker
    has_language_tool,  \* ErrorChecker.has_language_tool
    pc,                 \* where the running call stands
    caller,             \* "process_image" or "check_text": who called check_text
    image,              \* the state of the file behind image_path
    check_errors,       \* process_image's parameter
    save_output,        \* process_image's parameter
    n_images,           \* len(images) in recognize_text
    texts,              \* what Tesseract answered, version by version
    best_text,          \* recognize_text's best_text
    ocr_result,         \* what recognize_text returned
    printed_text,       \* the text process_image printed as recognized text
    saved_text,         \* what process_image wrote to result.txt
    text,               \* check_text's parameter
    check_grammar,      \* check_text's parameter
    check_ocr_errors,   \* check_text's parameter
    corrected_text,     \* check_text's local
    errors,             \* check_text's local
    stage_text,         \* corrected_text as each pass left it
    check_result,       \* what check_text returned
    run,                \* 1: a first call of check_text, 2: the call on its result
    first_result        \* in run 2: what the first call returned

vars ==
    << has_spellchecker, has_language_tool, pc, caller, image, check_errors,
       save_output, n_images, texts, best_text, ocr_result, printed_text,
       saved_text, text, check_grammar, check_ocr_errors, corrected_text,
       errors, stage_text, check_result, run, first_result >>

ocr_vars == << image, n_images, texts, best_text, ocr_result >>
app_vars == << check_errors, save_output, printed_text, saved_text >>
call_vars == << text, check_grammar, check_ocr_errors >>
ctor_vars == << has_spellchecker, has_language_tool >>

\* nothing printed yet (a printed text is never empty: see PrintedText)
NoText == <<>>
NoStages ==
    [hyphenation |-> <<>>, ocr |-> <<>>, context |-> <<>>,
     grammar |-> <<>>, spelling |-> <<>>]
NoResult == [success |-> FALSE, error |-> "none"]
NoFile == [written |-> FALSE]

\* ErrorChecker.__init__ and OCRApplication.__init__: each optional engine
\* loads or does not
Init ==
    /\ has_spellchecker \in BOOLEAN
    /\ has_language_tool \in BOOLEAN
    /\ pc = "idle"
    /\ caller = "none"
    /\ image = "missing"
    /\ check_errors = FALSE
    /\ save_output = FALSE
    /\ n_images = 0
    /\ texts = <<>>
    /\ best_text = <<>>
    /\ ocr_result = NoResult
    /\ printed_text = NoText
    /\ saved_text = NoFile
    /\ text = <<>>
    /\ check_grammar = FALSE
    /\ check_ocr_errors = FALSE
    /\ corrected_text = <<>>
    /\ errors = <<>>
    /\ stage_text = NoStages
    /\ check_result = NoResult
    /\ run = 1
    /\ first_result = NoResult

(***************************************************************************)
(* OCRApplication.process_image and OCREngine.recognize_text               *)
(***************************************************************************)

\* process_image(image_path, check_errors, save_output) is called
ProcessImage(img, ce, so) ==
    /\ pc = "idle"
    /\ pc' = "recognize"
    /\ caller' = "process_image"
    /\ image' = img
    /\ check_errors' = ce
    /\ save_output' = so
    /\ UNCHANGED << ctor_vars, n_images, texts, best_text, ocr_result,
                    printed_text, saved_text, call_vars, corrected_text,
                    errors, stage_text, check_result, run, first_result >>

\* recognize_text up to the loop: Path() and the existence check, then
\* _preprocess_image; an exception raised by any of them is caught by the
\* except branch, which returns a failure
RecognizeStart ==
    /\ pc = "recognize"
    /\ IF image = "bad_path"
       THEN /\ ocr_result' = ExceptionResult
            /\ pc' = "recognized"
            /\ UNCHANGED << n_images, best_text, texts >>
       ELSE IF image = "missing"
       THEN /\ ocr_result' = NotFoundResult
            /\ pc' = "recognized"
            /\ UNCHANGED << n_images, best_text, texts >>
       ELSE IF _preprocess_image(image).raised
       THEN /\ ocr_result' = ExceptionResult
            /\ pc' = "recognized"
            /\ UNCHANGED << n_images, best_text, texts >>
       ELSE /\ n_images' = _preprocess_image(image).images
            /\ best_text' = <<>>
            /\ texts' = <<>>
            /\ pc' = "tesseract"
            /\ UNCHANGED ocr_result
    /\ UNCHANGED << ctor_vars, caller, image, app_vars, call_vars,
                    corrected_text, errors, stage_text, check_result, run,
                    first_result >>

\* one iteration of the loop: Tesseract answers t for the next version
RecognizeVersion(t) ==
    /\ pc = "tesseract"
    /\ Len(texts) < n_images
    /\ texts' = Append(texts, t)
    /\ best_text' = KeepBest(best_text, t)
    /\ UNCHANGED << ctor_vars, pc, caller, image, n_images, ocr_result,
                    app_vars, call_vars, corrected_text, errors, stage_text,
                    check_result, run, first_result >>

\* the loop is over: recognize_text returns
RecognizeReturn ==
    /\ pc = "tesseract"
    /\ Len(texts) = n_images
    /\ ocr_result' = RecognizeResult(best_text)
    /\ pc' = "recognized"
    /\ UNCHANGED << ctor_vars, caller, image, n_images, texts, best_text,
                    app_vars, call_vars, corrected_text, errors, stage_text,
                    check_result, run, first_result >>

\* process_image after recognize_text failed: the error is printed
\* (the locals of recognize_text are gone once its result is taken)
ProcessImageFailed ==
    /\ pc = "recognized"
    /\ ~ocr_result.success
    /\ n_images' = 0
    /\ texts' = <<>>
    /\ best_text' = <<>>
    /\ pc' = "finished"
    /\ UNCHANGED << ctor_vars, caller, image, ocr_result, app_vars, call_vars,
                    corrected_text, errors, stage_text, check_result, run,
                    first_result >>

\* the placeholder printed for an empty text: "(pusto)" in Cyrillic letters
EmptyPlaceholder == <<40, 1087, 1091, 1089, 1090, 1086, 41>>

\* print(text if text else "(pusto)"): what is printed as the recognized text
PrintedText(t) == IF t # <<>> THEN t ELSE EmptyPlaceholder

\* process_image after recognize_text succeeded: the text and the statistics
\* are printed, and check_text(text) is called when check_errors is set
ProcessImagePrint ==
    /\ pc = "recognized"
    /\ ocr_result.success
    /\ printed_text' = PrintedText(ocr_result.full_text)
    /\ IF check_errors
       THEN /\ text' = ocr_result.full_text
            /\ check_grammar' = TRUE
            /\ check_ocr_errors' = TRUE
            /\ errors' = <<>>
            /\ corrected_text' = ocr_result.full_text
            /\ pc' = "hyphenation"
       ELSE /\ pc' = "save"
            /\ UNCHANGED << call_vars, errors, corrected_text >>
    /\ n_images' = 0
    /\ texts' = <<>>
    /\ best_text' = <<>>
    /\ UNCHANGED << ctor_vars, caller, image, ocr_result, check_errors,
                    save_output, saved_text, stage_text, check_result, run,
                    first_result >>

\* the end of process_image: the text is written to result.txt when
\* save_output is set
ProcessImageSave ==
    /\ pc = "save"
    /\ saved_text' = IF save_output
                     THEN [written |-> TRUE, content |-> ocr_result.full_text]
                     ELSE NoFile
    /\ pc' = "finished"
    /\ UNCHANGED << ctor_vars, caller, ocr_vars, check_errors, save_output,
                    printed_text, call_vars, corrected_text, errors,
                    stage_text, check_result, run, first_result >>

(***************************************************************************)
(* ErrorChecker.check_text                                                 *)
(***************************************************************************)

\* check_text(t, check_grammar, check_ocr_errors) is called
CheckText(t, cg, co) ==
    /\ pc = "idle"
    /\ caller' = "check_text"
    /\ text' = t
    /\ check_grammar' = cg
    /\ check_ocr_errors' = co
    /\ errors' = <<>>
    /\ corrected_text' = t
    /\ pc' = "hyphenation"
    /\ UNCHANGED << ctor_vars, ocr_vars, app_vars, stage_text, check_result,
                    run, first_result >>

\* pass 0: word hyphenation
CheckHyphenation ==
    /\ pc = "hyphenation"
    /\ LET hyphen_errors == _fix_word_hyphenation(corrected_text)
           after == ApplyErrors(corrected_text, hyphen_errors, -1)
       IN /\ errors' = errors \o hyphen_errors
          /\ corrected_text' = after
          /\ stage_text' = [stage_text EXCEPT !.hyphenation = after]
    /\ pc' = "ocr"
    /\ UNCHANGED << ctor_vars, caller, ocr_vars, app_vars, call_vars,
                    check_result, run, first_result >>

\* pass 1: OCR errors
CheckOcrErrors ==
    /\ pc = "ocr"
    /\ LET ocr_errors == IF check_ocr_errors THEN _check_ocr_errors(text) ELSE <<>>
           after == ApplyErrors(corrected_text, ocr_errors, -1)
       IN /\ errors' = errors \o ocr_errors
          /\ corrected_text' = after
          /\ stage_text' = [stage_text EXCEPT !.ocr = after]
    /\ pc' = "context"
    /\ UNCHANGED << ctor_vars, caller, ocr_vars, app_vars, call_vars,
                    check_result, run, first_result >>

\* pass 2: context errors
CheckContextErrors ==
    /\ pc = "context"
    /\ LET ctx_errors == _check_context_errors(corrected_text)
           after == ApplyErrors(corrected_text, ctx_errors, -1)
       IN /\ errors' = errors \o ctx_errors
          /\ corrected_text' = after
          /\ stage_text' = [stage_text EXCEPT !.context = after]
    /\ pc' = "grammar"
    /\ UNCHANGED << ctor_vars, caller, ocr_vars, app_vars, call_vars,
                    check_result, run, first_result >>

\* pass 3: grammar, when asked for and LanguageTool was loaded
CheckGrammar ==
    /\ pc = "grammar"
    /\ \E answer \in (IF check_grammar /\ has_language_tool
                      THEN GrammarAnswers(corrected_text)
                      ELSE {[raised |-> TRUE]}) :
         LET grammar_errors ==
                 IF check_grammar /\ has_language_tool
                 THEN _check_grammar(corrected_text, has_language_tool, answer)
                 ELSE <<>>
             after == ApplyGrammarErrors(corrected_text, grammar_errors)
         IN /\ errors' = errors \o grammar_errors
            /\ corrected_text' = after
            /\ stage_text' = [stage_text EXCEPT !.grammar = after]
    /\ pc' = "spelling"
    /\ UNCHANGED << ctor_vars, caller, ocr_vars, app_vars, call_vars,
                    check_result, run, first_result >>

\* the dict check_text returns
CheckTextResult(t, corrected, errs) ==
    [success |-> TRUE,
     original_text |-> t,
     corrected_text |-> corrected,
     errors |-> errs,
     error_count |-> Len(errs),
     error_types |-> _count_error_types(errs)]

\* pass 4: spelling, when asked for and the spell checker was loaded; then
\* check_text returns
CheckSpelling ==
    /\ pc = "spelling"
    /\ \E answer \in (IF check_grammar /\ has_spellchecker
                      THEN SpellingAnswers(corrected_text)
                      ELSE {[raised |-> TRUE]}) :
         LET spell_errors ==
                 IF check_grammar /\ has_spellchecker
                 THEN _check_spelling(corrected_text, has_spellchecker, answer)
                 ELSE <<>>
             after == ApplyErrors(corrected_text, spell_errors, 1)
         IN /\ errors' = errors \o spell_errors
            /\ corrected_text' = after
            /\ stage_text' = [stage_text EXCEPT !.spelling = after]
            /\ check_result' = CheckTextResult(text, after, errors \o spell_errors)
    /\ pc' = IF caller = "process_image" THEN "save" ELSE "done"
    /\ UNCHANGED << ctor_vars, caller, ocr_vars, app_vars, call_vars, run,
                    first_result >>

\* check_text is called again, on the corrected_text it returned
CheckTextAgain ==
    /\ pc = "done"
    /\ run = 1
    /\ run' = 2
    /\ first_result' = check_result
    /\ text' = check_result.corrected_text
    /\ errors' = <<>>
    /\ corrected_text' = check_result.corrected_text
    /\ pc' = "hyphenation"
    /\ UNCHANGED << ctor_vars, caller, ocr_vars, app_vars, check_grammar,
                    check_ocr_errors, stage_text, check_result >>

Next ==
    \/ /\ pc = "idle"
       /\ \E img \in ImageStates, ce \in BOOLEAN, so \in BOOLEAN :
              ProcessImage(img, ce, so)
    \/ RecognizeStart
    \/ /\ pc = "tesseract"
       /\ \E t \in OcrTexts : RecognizeVersion(t)
    \/ RecognizeReturn
    \/ ProcessImageFailed
    \/ ProcessImagePrint
    \/ ProcessImageSave
    \/ /\ pc = "idle"
       /\ \E t \in TextInputs, cg \in BOOLEAN, co \in BOOLEAN : CheckText(t, cg, co)
    \/ CheckHyphenation
    \/ CheckOcrErrors
    \/ CheckContextErrors
    \/ CheckGrammar
    \/ CheckSpelling

Spec == Init /\ [][Next]_vars

\* the same program with a caller that checks a corrected text again
NextAgain == Next \/ CheckTextAgain

SpecAgain == Init /\ [][NextAgain]_vars

(***************************************************************************)
(* Properties                                                              *)
(***************************************************************************)

\* the issues of one kind, in order
ErrorsOfType(errs, t) == SelectSeq(errs, LAMBDA e : e.type = t)

\* the earliest index whose trimmed text is the longest
LongestTrimmedIndex(ts) ==
    CHOOSE i \in 1..Len(ts) :
        \A j \in 1..Len(ts) :
            /\ Len(Strip(ts[j])) <= Len(Strip(ts[i]))
            /\ j < i => Len(Strip(ts[j])) < Len(Strip(ts[i]))

\* C1: recognize_text returns the text of the version whose trimmed text is
\* the longest, the earliest such version on a tie.
C1_SelectsLongestTrimmed ==
    (pc = "recognized" /\ ocr_result.success /\ Len(texts) > 0)
        => ocr_result.full_text = Strip(texts[LongestTrimmedIndex(texts)])

\* C2: the confusable-character pass works on the output of the hyphenation
\* pass: its issues are those computed from the dehyphenated text.
C2_OcrPassReadsDehyphenated ==
    (pc = "context" /\ check_ocr_errors)
        => ErrorsOfType(errors, "ocr_error")
               = _check_ocr_errors(stage_text.hyphenation)

\* the pattern: Cyrillic letter, hyphen, line feed, Cyrillic letter
HasHyphenPattern(t) ==
    \E i \in 1..(Len(t) - 3) :
        /\ IsCyrillic(t[i])
        /\ t[i + 1] = 45
        /\ t[i + 2] = 10
        /\ IsCyrillic(t[i + 3])

\* C3: after the hyphenation pass the text holds no occurrence of the
\* pattern 'Cyrillic letter, hyphen, line break, Cyrillic letter'.
C3_NoHyphenationLeft ==
    pc = "ocr" => ~HasHyphenPattern(stage_text.hyphenation)

\* a token with at least one mapped character ('0', '1', '3', 'l')
HasMapped(w) == \E k \in 1..Len(w) : w[k] \in {48, 49, 51, 108}

\* the tokens of a text that hold a mapped character, one entry per
\* occurrence, in text order
AffectedTokens(t) == SelectSeq(Tokens(t, 1), HasMapped)

\* C4 as claimed: the issue list holds exactly one confusable-character
\* issue per distinct token with a mapped character, and none for any
\* other token.
C4_OneIssuePerDistinctToken ==
    (check_result.success /\ check_ocr_errors) =>
        LET ocr == ErrorsOfType(check_result.errors, "ocr_error")
            affected == AffectedTokens(check_result.original_text)
        IN /\ \A k \in 1..Len(ocr) :
                  \E j \in 1..Len(affected) : affected[j] = ocr[k].original
           /\ \A j \in 1..Len(affected) :
                  Cardinality({k \in 1..Len(ocr) : ocr[k].original = affected[j]}) = 1

\* C4 as amended: with the confusable-character pass enabled the issue list
\* holds one confusable-character issue per occurrence of a token of the
\* input text with a mapped character, in text order, and none for any other
\* token; with the pass disabled it holds none.
C4_OneIssuePerTokenOccurrence ==
    check_result.success =>
        LET ocr == ErrorsOfType(check_result.errors, "ocr_error")
            affected == AffectedTokens(check_result.original_text)
        IN IF check_ocr_errors
           THEN /\ Len(ocr) = Len(affected)
                /\ \A k \in 1..Len(ocr) : ocr[k].original = affected[k]
           ELSE ocr = <<>>

\* C4 witness: check_text returned two confusable-character issues for two
\* occurrences of the same token.
C4_Witness ==
    /\ check_result.success
    /\ check_ocr_errors
    /\ LET ocr == ErrorsOfType(check_result.errors, "ocr_error")
       IN \E i, j \in 1..Len(ocr) : i < j /\ ocr[i].original = ocr[j].original

\* no grammar issue and no spelling issue among the issues
NoGrammarOrSpelling(errs) ==
    \A k \in 1..Len(errs) : errs[k].type \notin {"grammar_error", "spelling_error"}

\* C5: when the grammar and spelling passes are disabled or return no
\* issues, check_text on the corrected_text of a previous run reports no
\* issue.
C5_SecondRunFindsNothing ==
    (/\ pc = "done"
     /\ run = 2
     /\ NoGrammarOrSpelling(first_result.errors)
     /\ NoGrammarOrSpelling(check_result.errors))
        => check_result.errors = <<>>

\* C6: when the file is missing or cannot be loaded or decoded,
\* recognize_text returns a failure with an error message, never a success
\* with an empty text.
C6_UndecodableReportsFailure ==
    (pc = "recognized" /\ image # "decodable") =>
        /\ ~ocr_result.success
        /\ ocr_result.error \in {"not found", "exception"}

\* C7: with check_errors set, the text process_image delivers (prints as
\* the recognized text, the placeholder standing for an empty text, and
\* writes to the output file) is the corrected_text of the correction
\* pipeline.
C7_DeliversCorrectedText ==
    (pc = "finished" /\ ocr_result.success /\ check_errors) =>
        /\ printed_text = PrintedText(check_result.corrected_text)
        /\ save_output => saved_text.content = check_result.corrected_text

\* the number of non-overlapping occurrences of p in s (p not empty)
RECURSIVE OccurrenceCount(_, _)
OccurrenceCount(s, p) ==
    LET i == Find(s, p, 1)
    IN IF i = 0 THEN 0
       ELSE 1 + OccurrenceCount(SubSeq(s, i + Len(p), Len(s)), p)

\* C8: every occurrence, in any letter case, of a configured wrong phrase
\* in the input of the context pass gets an issue that carries the correct
\* phrase, and each flagged occurrence is replaced by the correct phrase:
\* the text that leaves the pass holds each correct phrase at least as
\* often as issues carry it.
C8_EveryFlaggedOccurrenceReplaced ==
    pc = "grammar" =>
        LET input == stage_text.ocr
            output == stage_text.context
            ctx == ErrorsOfType(errors, "context_error")
        IN /\ \A n \in 1..Len(context_errors) :
                  \A i \in 1..Len(input) :
                      MatchesAt(Lower(input), i, context_errors[n].wrong) =>
                          \E k \in 1..Len(ctx) :
                              /\ ctx[k].original
                                     = SubSeq(input, i,
                                              i + Len(context_errors[n].wrong) - 1)
                              /\ ctx[k].suggestion = context_errors[n].correct
           /\ \A n \in 1..Len(context_errors) :
                  OccurrenceCount(output, context_errors[n].correct)
                      >= Len(SelectSeq(ctx, LAMBDA e :
                                 e.suggestion = context_errors[n].correct))

\* the sum of the values of a mapping kind -> count
RECURSIVE SumCounts(_)
SumCounts(counts) ==
    IF DOMAIN counts = {} THEN 0
    ELSE LET t == CHOOSE x \in DOMAIN counts : TRUE
         IN counts[t] + SumCounts([x \in DOMAIN counts \ {t} |-> counts[x]])

\* C9: in every result of check_text, error_count is the length of the
\* issue list and the per-kind counts of error_types sum to error_count.
C9_IssueCounts ==
    check_result.success =>
        /\ check_result.error_count = Len(check_result.errors)
        /\ SumCounts(check_result.error_types) = check_result.error_count

\* C9 witness: a result with issues of at least two kinds, two of them of
\* the same kind.
C9_Witness ==
    /\ check_result.success
    /\ Cardinality(DOMAIN check_result.error_types) >= 2
    /\ \E t \in DOMAIN check_result.error_types : check_result.error_types[t] >= 2

\* C10: the grammar pass never changes the text: the text entering the
\* spelling pass is the text that left the context pass, whatever the
\* grammar capability returned, and every grammar issue carries the fixed
\* confidence.
C10_GrammarKeepsText ==
    pc = "spelling" =>
        /\ corrected_text = stage_text.context
        /\ stage_text.grammar = stage_text.context
        /\ \A k \in 1..Len(errors) :
               errors[k].type = "grammar_error"
                   => Confidence(errors[k]) = GrammarConfidence

\* C10 witness: the grammar pass has appended an issue whose original
\* occurs in the text and differs from its suggestion.
C10_Witness ==
    /\ pc = "spelling"
    /\ \E k \in 1..Len(errors) :
           /\ errors[k].type = "grammar_error"
           /\ errors[k].original # errors[k].suggestion
           /\ Contains(corrected_text, errors[k].original)

=============================================================================
